---- MODULE Spec2Model ----
(***************************************************************************)
(* Persona Interact action panel (persona_interact_action/app/app.py).     *)
(*                                                                         *)
(* The panel is a Streamlit script: every user event runs render() from    *)
(* top to bottom (import expander, purge expander, parameter list,         *)
(* channel formats); st.rerun() aborts the run and starts a fresh one.     *)
(* One action of this model is one user event together with the script     *)
(* run(s) it causes.  The variables are the session state, the backend's   *)
(* record count, what the last run rendered, and the backend calls the     *)
(* last event issued.                                                      *)
(***************************************************************************)
EXTENDS Integers, Sequences, FiniteSets, TLC

VARIABLES
    purge_confirmation,  \* st.session_state[f"{model_key}_purge_confirmation"]
    current_page,        \* st.session_state.current_page
    model_page,          \* st.session_state[model_key]["page"] (0: key absent)
    config,              \* st.session_state[model_key]["channel_format_directives"]
    records,             \* number of parameter records held by the backend
    displayed,           \* the parameter page rendered by the last run
    messages,            \* st.success / st.error texts emitted by the last event
    crashed,             \* exception that escaped the last run ("none" if none)
    calls,               \* call_api invocations of the last event, in order
    last_total_pages,    \* total_pages most recently reported by the backend
    last_event,          \* the user event that caused the last run
    last_input           \* the import input of the last event

vars == <<purge_confirmation, current_page, model_page, config, records,
          displayed, messages, crashed, calls, last_total_pages, last_event,
          last_input>>

----------------------------------------------------------------------------
(* Bounds of the model *)

MaxRecords == 11

----------------------------------------------------------------------------
(* Program constants and inputs *)

InitialPageZero == 1 - 1

InitialPage == 1

per_page == 10

agent_id == "agent1"

action_id == "act1"

Channels == {"default", "whatsapp"}

Directives == {"plain", "markdown"}

Statuses == {200, 204, 500}

\* call_api returns a response object, or None when the transport failed
None == [received |-> FALSE, status_code |-> 0]

Responses == {None} \cup {[received |-> TRUE, status_code |-> s] : s \in Statuses}

\* the list handler tells 200 from everything else only, so one failing
\* status stands for all of them
ListResponses == {r \in Responses : r.status_code # 204}

Max(a, b) == IF a >= b THEN a ELSE b

Min(a, b) == IF a <= b THEN a ELSE b

\* `result and result.status_code == 200`
Ok200(result) == result.received /\ result.status_code = 200

\* `if result:` on a response object: requests.Response.__bool__ is
\* Response.ok, true for every status below 400
Truthy(result) == result.received /\ result.status_code < 400

----------------------------------------------------------------------------
(* The backend's list_parameters, from the ParameterPage contract *)

CeilDiv(n, d) == (n + d - 1) \div d

TotalPages(n) == Max(1, CeilDiv(n, per_page))

ListPayload(n, page) ==
    LET tp == TotalPages(n)
        p  == Min(tp, Max(1, page))
    IN  [page          |-> p,
         total_pages   |-> tp,
         has_previous  |-> p > 1,
         has_next      |-> p < tp,
         items         |-> Max(0, Min(per_page, n - (p - 1) * per_page))]

----------------------------------------------------------------------------
(* What a run renders of the parameter list *)

NoView == [shown |-> FALSE, page |-> 0, total_pages |-> 0,
           has_previous |-> FALSE, has_next |-> FALSE, items |-> 0]

View(payload) == [shown |-> TRUE, page |-> payload.page,
                  total_pages |-> payload.total_pages,
                  has_previous |-> payload.has_previous,
                  has_next |-> payload.has_next,
                  items |-> payload.items]

Call(endpoint, json_data, result, known_tp) ==
    [endpoint |-> endpoint, json_data |-> json_data, result |-> result,
     known_tp |-> known_tp]

ListCall(page, result, known_tp) ==
    Call("list_parameters",
         [page |-> page, per_page |-> per_page, agent_id |-> agent_id,
          reporting |-> TRUE],
         result, known_tp)

\* the run renders the page only when the list call returned 200; there is
\* no else branch, so a failed call leaves the list area empty
FetchView(n, page, result) ==
    IF Ok200(result) THEN View(ListPayload(n, page)) ELSE NoView

ReportedTotalPages(known_tp, n, page, result) ==
    IF Ok200(result) THEN ListPayload(n, page).total_pages ELSE known_tp

PrevPage(page) == Max(1, page - 1)

NextPage(page, total_pages) == Min(total_pages, page + 1)

NoInput == [source |-> "none", uploaded |-> FALSE, type |-> "", text |-> ""]

----------------------------------------------------------------------------
Init ==
    /\ purge_confirmation = FALSE
    /\ current_page = InitialPage
    /\ model_page = 0
    /\ config \in [Channels -> Directives]
    /\ records \in 0..MaxRecords
    /\ displayed = NoView
    /\ messages = {}
    /\ crashed = "none"
    /\ calls = <<>>
    /\ last_total_pages = 0
    /\ last_event = "none"
    /\ last_input = NoInput

\* lines 38-103 of a run: the list call and what it renders.  prior holds
\* the calls the run issued before it.
RenderList(prior, page, n, known_tp, r) ==
    /\ calls' = Append(prior, ListCall(page, r, known_tp))
    /\ displayed' = FetchView(n, page, r)
    /\ last_total_pages' = ReportedTotalPages(known_tp, n, page, r)

\* a widget interaction with no handler of its own (typing in a field,
\* switching the radio): the script runs and fetches the current page
Rerun ==
    \E r \in ListResponses :
        /\ RenderList(<<>>, current_page, records, last_total_pages, r)
        /\ messages' = {}
        /\ crashed' = "none"
        /\ last_event' = "rerun"
        /\ last_input' = NoInput
        /\ UNCHANGED <<purge_confirmation, current_page, model_page, config,
                       records>>

----------------------------------------------------------------------------
(* Purge Collection expander, _render_purge_collection.                    *)

\* the widgets below the import expander exist once a run got past the
\* import handler without an exception
Rendered == last_event # "none" /\ crashed = "none"

ConfirmVisibleAlways(flag) == TRUE

\* `if not st.session_state[purge_key]:` shows "Delete all parameters"
TriggerVisible(flag) == ~flag

\* the else branch shows the warning with Confirm and Cancel
ConfirmVisible(flag) == flag

DeleteCall(result, known_tp) ==
    Call("delete_collection", [agent_id |-> agent_id], result, known_tp)

\* the backend empties the collection when it answers 200
AfterDelete(n, result) == IF Ok200(result) THEN 0 ELSE n

\* "Delete all parameters": sets the flag and reruns
ClickDeleteAll ==
    /\ Rendered
    /\ TriggerVisible(purge_confirmation)
    /\ purge_confirmation' = TRUE
    /\ \E r \in ListResponses :
           RenderList(<<>>, current_page, records, last_total_pages, r)
    /\ messages' = {}
    /\ crashed' = "none"
    /\ last_event' = "trigger"
    /\ last_input' = NoInput
    /\ UNCHANGED <<current_page, model_page, config, records>>

FlagAfterConfirmKeptOnFailure(result) == ~Truthy(result)

\* line 251: the flag is cleared after either branch
FlagAfterConfirm(result) == FALSE

PurgeMessage(result) ==
    IF Truthy(result) THEN "Collection purged successfully"
    ELSE "Failed to complete purge."

\* line 248 writes key "page" of the persona configuration object
ModelPageAfterConfirm(page, result) == IF Truthy(result) THEN 1 ELSE page

\* st.session_state.current_page is not assigned by the purge handler
CurrentPageAfterConfirm(page, result) == page

\* "Confirm Permanent Deletion": one delete_collection call, a message,
\* the flag cleared, then a rerun
ClickConfirm ==
    /\ Rendered
    /\ ConfirmVisible(purge_confirmation)
    /\ \E rd \in Responses, rl \in ListResponses :
        /\ messages' = {PurgeMessage(rd)}
        /\ model_page' = ModelPageAfterConfirm(model_page, rd)
        /\ current_page' = CurrentPageAfterConfirm(current_page, rd)
        /\ purge_confirmation' = FlagAfterConfirm(rd)
        /\ records' = AfterDelete(records, rd)
        /\ RenderList(<<DeleteCall(rd, last_total_pages)>>, current_page',
                      records', last_total_pages, rl)
    /\ crashed' = "none"
    /\ last_event' = "confirm"
    /\ last_input' = NoInput
    /\ UNCHANGED config

\* "Cancel": clears the flag and reruns
ClickCancel ==
    /\ Rendered
    /\ ConfirmVisible(purge_confirmation)
    /\ purge_confirmation' = FALSE
    /\ \E r \in ListResponses :
           RenderList(<<>>, current_page, records, last_total_pages, r)
    /\ messages' = {}
    /\ crashed' = "none"
    /\ last_event' = "cancel"
    /\ last_input' = NoInput
    /\ UNCHANGED <<current_page, model_page, config, records>>

----------------------------------------------------------------------------
(* Pagination buttons, lines 66-79.  A button can be pressed only if the   *)
(* last run rendered it; the run the press causes fetches the page again   *)
(* and evaluates the button against the fresh payload.                     *)

\* "←": rendered when the payload has has_previous
ClickPrev ==
    /\ displayed.shown
    /\ displayed.has_previous
    /\ \E r1 \in ListResponses :
        LET payload == ListPayload(records, current_page)
            tp1 == ReportedTotalPages(last_total_pages, records, current_page, r1)
            first == ListCall(current_page, r1, last_total_pages)
        IN  IF Ok200(r1) /\ payload.has_previous
            THEN /\ current_page' = PrevPage(current_page)
                 /\ \E r2 \in ListResponses :
                        RenderList(<<first>>, current_page', records, tp1, r2)
            ELSE /\ current_page' = current_page
                 /\ RenderList(<<>>, current_page, records, last_total_pages, r1)
    /\ messages' = {}
    /\ crashed' = "none"
    /\ last_event' = "prev"
    /\ last_input' = NoInput
    /\ UNCHANGED <<purge_confirmation, model_page, config, records>>

\* "→": rendered when the payload has has_next
ClickNext ==
    /\ displayed.shown
    /\ displayed.has_next
    /\ \E r1 \in ListResponses :
        LET payload == ListPayload(records, current_page)
            tp1 == ReportedTotalPages(last_total_pages, records, current_page, r1)
            first == ListCall(current_page, r1, last_total_pages)
        IN  IF Ok200(r1) /\ payload.has_next
            THEN /\ current_page' = NextPage(current_page, payload.total_pages)
                 /\ \E r2 \in ListResponses :
                        RenderList(<<first>>, current_page', records, tp1, r2)
            ELSE /\ current_page' = current_page
                 /\ RenderList(<<>>, current_page, records, last_total_pages, r1)
    /\ messages' = {}
    /\ crashed' = "none"
    /\ last_event' = "next"
    /\ last_input' = NoInput
    /\ UNCHANGED <<purge_confirmation, model_page, config, records>>

----------------------------------------------------------------------------
(* Import parameters expander, _render_import_parameters.                  *)

\* Python values, as far as truthiness and list() look at them: the type
\* and the length (for an int, the value)
PyValue(type, size) == [type |-> type, size |-> size]

PyNone == PyValue("NoneType", 0)

\* `data_to_import = ""`
EmptyStr == PyValue("str", 0)

Parsed(value) == [ok |-> TRUE, value |-> value]

ParseError == [ok |-> FALSE, value |-> PyNone]

\* the texts an operator pastes or uploads
Texts == {"", "[{\"a\": 1}]", "a: 1", "{not valid", "[]", "5"}

\* json.loads on these texts
JsonLoads(text) ==
    CASE text = "[{\"a\": 1}]"             -> Parsed(PyValue("list", 1))
      [] text = "[]"                       -> Parsed(PyValue("list", 0))
      [] text = "5"                        -> Parsed(PyValue("int", 5))
      [] OTHER                             -> ParseError

\* yaml.safe_load on these texts: JSON documents are YAML flow documents,
\* "a: 1" is a block mapping, empty input is the empty document (None),
\* "{not valid" is an unterminated flow mapping
YamlSafeLoad(text) ==
    CASE text = "a: 1"       -> Parsed(PyValue("dict", 1))
      [] text = ""           -> Parsed(PyNone)
      [] text = "{not valid" -> ParseError
      [] OTHER               -> JsonLoads(text)

\* truthiness of a parsed value: None, 0 and empty containers are false
PyTruthy(value) == value.type # "NoneType" /\ value.size # 0

\* list(value) raises TypeError unless the value is iterable
PyIterable(value) == value.type \in {"list", "dict", "str"}

\* the inputs of one press of Import: the radio selects inline text or an
\* upload; an upload has a declared media type
ImportInputs ==
    {[source |-> "Text input", uploaded |-> FALSE, type |-> "", text |-> t] :
        t \in Texts}
    \cup {[source |-> "Upload file", uploaded |-> FALSE, type |-> "", text |-> ""]}
    \cup {[source |-> "Upload file", uploaded |-> TRUE, type |-> ty, text |-> t] :
            ty \in {"application/json", "application/x-yaml"},
            t \in {"{not valid"}}
    \cup {[source |-> "Upload file", uploaded |-> TRUE,
           type |-> "application/x-yaml", text |-> "a: 1"]}

Loaded(exception, msgs, data) ==
    [exception |-> exception, messages |-> msgs, data |-> data]

\* lines 169-177: any exception of the file branch is caught and shown
LoadUpload(input) ==
    LET p == IF input.type = "application/json" THEN JsonLoads(input.text)
             ELSE YamlSafeLoad(input.text)
    IN  IF p.ok THEN Loaded("none", {}, p.value)
        ELSE Loaded("none", {"Error loading file"}, EmptyStr)

\* lines 178-187: JSON first, YAML on JSONDecodeError, ValueError raised
\* when YAML fails too
LoadText(text) ==
    LET j == JsonLoads(text)
        y == YamlSafeLoad(text)
    IN  IF j.ok THEN Loaded("none", {}, j.value)
        ELSE IF y.ok THEN Loaded("none", {}, y.value)
        ELSE Loaded("ValueError", {}, EmptyStr)

\* lines 150-187
LoadImport(input) ==
    IF input.uploaded THEN LoadUpload(input)
    ELSE IF input.source = "Text input" /\ input.text # "" THEN LoadText(input.text)
    ELSE Loaded("none", {}, EmptyStr)

ImportCall(n, result, known_tp) ==
    Call("import_parameters", [agent_id |-> agent_id, data |-> n], result,
         known_tp)

\* lines 197-200
ImportMessage(result) ==
    IF Truthy(result) THEN "Agent parameters imported successfully"
    ELSE "Failed to import parameters. Ensure valid YAML/JSON format."

NoDataMessage == "No data to import. Please provide valid text or upload a file."

\* the backend stores the records sent when it answers 200
AfterImport(n, sent, result) == IF Ok200(result) THEN n + sent ELSE n

\* an exception that leaves the handler ends the run: nothing below the
\* import expander is rendered
Abort(exception, msgs) ==
    /\ crashed' = exception
    /\ messages' = msgs
    /\ calls' = <<>>
    /\ displayed' = NoView
    /\ UNCHANGED <<records, last_total_pages>>

ClickImport ==
    \E input \in ImportInputs :
        LET loaded == LoadImport(input) IN
        /\ last_event' = "import"
        /\ last_input' = input
        /\ UNCHANGED <<purge_confirmation, current_page, model_page, config>>
        /\ IF loaded.exception # "none"
           THEN Abort(loaded.exception, loaded.messages)
           ELSE IF PyTruthy(loaded.data)
           THEN IF ~PyIterable(loaded.data)
                THEN Abort("TypeError", loaded.messages)
                ELSE /\ records + loaded.data.size <= MaxRecords
                     /\ \E ri \in Responses, rl \in ListResponses :
                         /\ records' = AfterImport(records, loaded.data.size, ri)
                         /\ messages' = loaded.messages \cup {ImportMessage(ri)}
                         /\ RenderList(<<ImportCall(loaded.data.size, ri,
                                                    last_total_pages)>>,
                                       current_page, records',
                                       last_total_pages, rl)
                     /\ crashed' = "none"
           ELSE /\ messages' = loaded.messages \cup {NoDataMessage}
                /\ \E rl \in ListResponses :
                       RenderList(<<>>, current_page, records,
                                  last_total_pages, rl)
                /\ crashed' = "none"
                /\ UNCHANGED records

----------------------------------------------------------------------------
(* Parameter records of the rendered page, lines 80-103, and               *)
(* update_parameters, lines 258-281.                                       *)

UpdateCall(data, result, known_tp) ==
    Call("update_parameters",
         [agent_id |-> agent_id, id |-> "p1", data |-> data,
          reporting |-> TRUE],
         result, known_tp)

\* `if result and result.status_code == 200: return True`
update_parameters(result) == Ok200(result)

SaveMessage(updated) ==
    IF updated THEN "Changes saved successfully."
    ELSE "Failed to update parameter."

\* "Save Changes" of a rendered record: the run fetches the page, and if
\* the record is rendered again its button sends the three text fields
ClickSave ==
    /\ displayed.shown
    /\ displayed.items >= 1
    /\ \E rl \in ListResponses, ru \in Responses :
        LET tp == ReportedTotalPages(last_total_pages, records, current_page, rl)
        IN  /\ displayed' = FetchView(records, current_page, rl)
            /\ last_total_pages' = tp
            /\ IF displayed'.shown /\ displayed'.items >= 1
               THEN /\ calls' = <<ListCall(current_page, rl, last_total_pages),
                                  UpdateCall("fields", ru, tp)>>
                    /\ messages' = {SaveMessage(update_parameters(ru))}
               ELSE /\ calls' = <<ListCall(current_page, rl, last_total_pages)>>
                    /\ messages' = {}
    /\ crashed' = "none"
    /\ last_event' = "save"
    /\ last_input' = NoInput
    /\ UNCHANGED <<purge_confirmation, current_page, model_page, config,
                   records>>

\* "Enable Parameter" checkbox: the on_change callback calls
\* update_parameters before the run and drops its result
ToggleEnabled ==
    /\ displayed.shown
    /\ displayed.items >= 1
    /\ \E ru \in Responses, rl \in ListResponses :
           RenderList(<<UpdateCall("enabled", ru, last_total_pages)>>,
                      current_page, records, last_total_pages, rl)
    /\ messages' = {}
    /\ crashed' = "none"
    /\ last_event' = "toggle"
    /\ last_input' = NoInput
    /\ UNCHANGED <<purge_confirmation, current_page, model_page, config,
                   records>>

----------------------------------------------------------------------------
(* Channel Formats tab, lines 105-133, and call_update_action, 287-307.    *)

\* st.session_state[model_key]: the persona configuration object, which
\* holds the directives and the "page" key the purge handler writes
ActionData(page, directives) ==
    [page |-> page, channel_format_directives |-> directives]

EmptyDict == [k \in {} |-> ""]

\* the first report of an update_action response body
Reports == {<<>>, <<[id |-> action_id]>>, <<[id |-> "other"]>>,
            <<[label |-> "persona"]>>}

UpdateActionCall(action_data, result, known_tp) ==
    Call("update_action",
         [agent_id |-> agent_id, action_id |-> action_id,
          action_data |-> action_data],
         result, known_tp)

\* lines 302-307
call_update_action(response, reports) ==
    IF Ok200(response) /\ Len(reports) > 0 THEN reports[1] ELSE EmptyDict

\* dict.get("id", "")
GetId(dict) == IF "id" \in DOMAIN dict THEN dict.id ELSE ""

CommittedNoEcho(result) == DOMAIN result # {}

\* `if result and result.get("id", "") == action_id`
Committed(result) == DOMAIN result # {} /\ GetId(result) = action_id

ChannelMessage(ok) ==
    IF ok THEN "Changes saved" ELSE "Unable to save changes"

\* `action_data=st.session_state[model_key]`
SentActionData(page, directives) == ActionData(page, directives)

\* a channel's text area is edited: the run stores the new text
EditChannel ==
    /\ Rendered
    /\ \E channel \in Channels, directive \in Directives :
        /\ config[channel] # directive
        /\ config' = [config EXCEPT ![channel] = directive]
    /\ \E rl \in ListResponses :
           RenderList(<<>>, current_page, records, last_total_pages, rl)
    /\ messages' = {}
    /\ crashed' = "none"
    /\ last_event' = "edit"
    /\ last_input' = NoInput
    /\ UNCHANGED <<purge_confirmation, current_page, model_page, records>>

\* a channel's "Update" button: the run fetches the parameter page, then
\* sends the configuration object and compares the echoed id
ClickUpdate ==
    /\ Rendered
    /\ \E rl \in ListResponses, response \in Responses, reports \in Reports :
        LET tp == ReportedTotalPages(last_total_pages, records, current_page, rl)
            result == call_update_action(response, reports)
        IN  /\ displayed' = FetchView(records, current_page, rl)
            /\ last_total_pages' = tp
            /\ calls' = <<ListCall(current_page, rl, last_total_pages),
                          UpdateActionCall(SentActionData(model_page, config),
                                           [received |-> response.received,
                                            status_code |-> response.status_code,
                                            reports |-> reports],
                                           tp)>>
            /\ messages' = {ChannelMessage(Committed(result))}
    /\ crashed' = "none"
    /\ last_event' = "update"
    /\ last_input' = NoInput
    /\ UNCHANGED <<purge_confirmation, current_page, model_page, config,
                   records>>

Next ==
    \/ Rerun
    \/ ClickDeleteAll
    \/ ClickConfirm
    \/ ClickCancel
    \/ ClickPrev
    \/ ClickNext
    \/ ClickImport
    \/ ClickSave
    \/ ToggleEnabled
    \/ EditChannel
    \/ ClickUpdate

Spec == Init /\ [][Next]_vars
----------------------------------------------------------------------------
(* Properties *)

IsCall(call, endpoint) == call.endpoint = endpoint

CallsTo(cs, endpoint) == {i \in DOMAIN cs : IsCall(cs[i], endpoint)}

\* C1: delete_collection is called only by the confirm trigger, and only
\* from a state in which the confirmation flag is set; the trigger and the
\* cancel events call nothing but list_parameters.
C1_PurgeGate ==
    [][/\ (CallsTo(calls', "delete_collection") # {}
             => purge_confirmation /\ last_event' = "confirm")
       /\ (last_event' \in {"trigger", "cancel"}
             => CallsTo(calls', "delete_collection") = {})]_vars

C1_Witness ==
    /\ last_event = "confirm"
    /\ CallsTo(calls, "delete_collection") = {1}
    /\ Ok200(calls[1].result)
    /\ records = 0

\* C2: a confirm issues exactly one delete_collection call and leaves the
\* confirmation flag cleared, whatever the call returned.
C2_ConfirmOnceThenIdle ==
    last_event = "confirm"
        => /\ Cardinality(CallsTo(calls, "delete_collection")) = 1
           /\ purge_confirmation = FALSE

C2_Witness ==
    /\ last_event = "confirm"
    /\ calls[1].endpoint = "delete_collection"
    /\ ~Truthy(calls[1].result)
    /\ purge_confirmation = FALSE
    /\ messages = {"Failed to complete purge."}

\* C3: no list_parameters request carries a page greater than the
\* total_pages the backend reported last before the request.
C3_PageWithinReportedTotal ==
    \A i \in CallsTo(calls, "list_parameters") :
        calls[i].known_tp > 0 => calls[i].json_data.page <= calls[i].known_tp

\* C4: current_page is at least 1 and every list_parameters request
\* carries a page of at least 1.
C4_PageAtLeastOne ==
    /\ current_page >= 1
    /\ \A i \in CallsTo(calls, "list_parameters") : calls[i].json_data.page >= 1

C4_Witness ==
    /\ last_event = "prev"
    /\ current_page = 1
    /\ Len(calls) = 2
    /\ calls[1].json_data.page = 2
    /\ calls[2].json_data.page = 1

ListFailed(cs) ==
    \E i \in CallsTo(cs, "list_parameters") : ~Ok200(cs[i].result)

\* C5: an event whose list_parameters call fails leaves the rendered page
\* of records as it was and shows an error.
C5_FailedListKeepsPage ==
    [][(displayed.items >= 1 /\ ListFailed(calls'))
          => (displayed' = displayed /\ messages' # {})]_vars

\* inline text that neither json.loads nor yaml.safe_load accepts
TextUnparsable(input) ==
    /\ input.source = "Text input"
    /\ input.text # ""
    /\ ~JsonLoads(input.text).ok
    /\ ~YamlSafeLoad(input.text).ok

\* an uploaded file that the parser chosen by its media type rejects
FileUnparsable(input) ==
    /\ input.uploaded
    /\ IF input.type = "application/json" THEN ~JsonLoads(input.text).ok
       ELSE ~YamlSafeLoad(input.text).ok

\* C6: an Import of inline text that fails both parses ends the run
\* normally with a message shown, not with an exception.
C6_UnparsableTextIsShown ==
    (last_event = "import" /\ TextUnparsable(last_input))
        => crashed = "none" /\ messages # {}

\* nothing to parse, or a parse that yields an empty value
EmptyImport(input) ==
    \/ input.source = "Text input" /\ input.text = ""
    \/ input.source = "Upload file" /\ ~input.uploaded
    \/ /\ ~TextUnparsable(input)
       /\ ~FileUnparsable(input)
       /\ ~PyTruthy(LoadImport(input).data)

\* C7: an empty import calls nothing and shows "no data to import"; a
\* parse failure never shows "no data to import".
C7_EmptyDistinctFromParseError ==
    last_event = "import"
        => /\ EmptyImport(last_input)
                => /\ CallsTo(calls, "import_parameters") = {}
                   /\ NoDataMessage \in messages
           /\ (TextUnparsable(last_input) \/ FileUnparsable(last_input))
                => NoDataMessage \notin messages

\* the echo test of the update_action response
Echoed(result) ==
    /\ result.received
    /\ result.status_code = 200
    /\ Len(result.reports) > 0
    /\ "id" \in DOMAIN result.reports[1]
    /\ result.reports[1].id = action_id

\* C8: Update sends the whole configuration object in one update_action
\* call and reports success exactly when the response is 200 with a first
\* report whose id is the action_id sent; failure otherwise.
C8_ChannelCommit ==
    last_event = "update"
        => /\ Cardinality(CallsTo(calls, "update_action")) = 1
           /\ \A i \in CallsTo(calls, "update_action") :
                /\ calls[i].json_data.action_data = ActionData(model_page, config)
                /\ calls[i].json_data.action_id = action_id
                /\ "Changes saved" \in messages <=> Echoed(calls[i].result)
                /\ "Unable to save changes" \in messages <=> ~Echoed(calls[i].result)

C8_Witness ==
    /\ last_event = "update"
    /\ Len(calls) = 2
    /\ calls[2].result.status_code = 200
    /\ Len(calls[2].result.reports) > 0
    /\ GetId(calls[2].result.reports[1]) = "other"
    /\ messages = {"Unable to save changes"}
    /\ \E c \in Channels : config[c] = "markdown"

SuccessOnly200(message, endpoint) ==
    message \in messages
        => \A i \in CallsTo(calls, endpoint) : Ok200(calls[i].result)

\* C9: a success message of update_parameters, import_parameters or
\* delete_collection is shown only when the call returned status 200.
C9_SuccessOnly200 ==
    /\ SuccessOnly200("Changes saved successfully.", "update_parameters")
    /\ SuccessOnly200("Agent parameters imported successfully", "import_parameters")
    /\ SuccessOnly200("Collection purged successfully", "delete_collection")

\* C10: after a confirmed purge that returned 200, the list_parameters
\* request that follows carries page 1.
C10_PurgeResetsPage ==
    (last_event = "confirm" /\ Ok200(calls[1].result))
        => calls[2].json_data.page = 1
====
